---- MODULE Spec2Model ----
(***************************************************************************)
(* Model of CppBenchmark's System class (source/system.cpp): the host      *)
(* queries CpuArchitecture, CpuLogicalCores, CpuPhysicalCores,             *)
(* CpuTotalCores, CpuClockSpeed, CpuHyperThreading, RamTotal and RamFree,  *)
(* on both conditional-compilation paths (Windows and unix).               *)
(*                                                                         *)
(* One behaviour is one call of one query.  The operating system is the    *)
(* environment: the topology list, the registry values, the text of        *)
(* /proc/cpuinfo and the memory status are drawn when the call reads them.  *)
(* Text is a sequence of one-character strings.  A 32-bit DWORD is a pair  *)
(* of 16-bit limbs and an int64_t is four 16-bit limbs (little endian,     *)
(* two's complement), so that products keep the width the code gives them. *)
(***************************************************************************)
EXTENDS Integers, Sequences, FiniteSets, TLC

VARIABLES platform, op, pc, topology, processors, osCalls, osChanges,
          heap, pBuffer, dwLength, allocated, result, dwOffset, cores,
          cpuinfo, registry, memory, bitMask, machine,
          retString, retPair, retInt, retBool, retInt64

vars == <<platform, op, pc, topology, processors, osCalls, osChanges,
          heap, pBuffer, dwLength, allocated, result, dwOffset, cores,
          cpuinfo, registry, memory, bitMask, machine,
          retString, retPair, retInt, retBool, retInt64>>

(* ------------------------------ bounds --------------------------------- *)

\* width of ULONG_PTR in the model (the build has 32 or 64)
PtrBits == 8
\* longest topology list the OS reports in the enumerated part of the input
MaxEntries == 2
\* how often the OS may hot-add a processor while the buffer is being sized
MaxChanges == 1
\* most lines of /proc/cpuinfo
MaxLines == 2
\* largest online-processor count sysconf reports
MaxProcessors == 8

(* ----------------------------- constants ------------------------------- *)

NULL == 0
\* sizeof(SYSTEM_LOGICAL_PROCESSOR_INFORMATION) on a 64-bit build
EntrySize == 32
Limb == 2 ^ 16

(* ------------------------- Internals::CountSetBits --------------------- *)

\* (pBitMask & pBitTest) for a pBitTest that is zero or has one bit set
BitTest(pBitMask, pBitTest) ==
    pBitTest # 0 /\ (pBitMask \div pBitTest) % 2 = 1

RECURSIVE CountSetBitsLoop(_, _, _, _, _)
CountSetBitsLoop(pBitMask, dwLeftShift, i, pBitTest, dwBitSetCount) ==
    IF i <= dwLeftShift
    THEN CountSetBitsLoop(pBitMask, dwLeftShift, i + 1, pBitTest \div 2,
             dwBitSetCount + (IF BitTest(pBitMask, pBitTest) THEN 1 ELSE 0))
    ELSE dwBitSetCount

\* the loop stops one bit early and never tests bit 0
CountSetBits_SkipsLowBit(pBitMask) ==
    CountSetBitsLoop(pBitMask, PtrBits - 2, 0, 2 ^ (PtrBits - 1), 0)

CountSetBits(pBitMask) ==
    CountSetBitsLoop(pBitMask, PtrBits - 1, 0, 2 ^ (PtrBits - 1), 0)

(* ------------------------------- text ---------------------------------- *)

ModelNameField == <<"m", "o", "d", "e", "l", " ", "n", "a", "m", "e">>
CpuMHzField == <<"c", "p", "u", " ", "M", "H", "z">>
Unknown == <<"<", "u", "n", "k", "n", "o", "w", "n", ">">>

\* the characters \s matches and isspace() accepts
IsSpace(c) == c \in {" ", "\t", "\n", "\r", "\f"}
\* the characters '.' does not match in an ECMAScript regex
IsLineTerminator(c) == c \in {"\n", "\r"}

RECURSIVE SkipSpace(_, _)
SkipSpace(text, i) ==
    IF i <= Len(text) /\ IsSpace(text[i]) THEN SkipSpace(text, i + 1) ELSE i

\* std::regex_match(text, matches, "<field>\\s*: (.*)"): the WHOLE text has
\* to match; matches[1] is what (.*) took
RegexMatch(text, field) ==
    LET n == Len(field)
        k == SkipSpace(text, n + 1)
    IN  IF /\ Len(text) >= n
           /\ SubSeq(text, 1, n) = field
           /\ k + 1 <= Len(text)
           /\ text[k] = ":"
           /\ text[k + 1] = " "
           /\ \A j \in (k + 2)..Len(text) : ~IsLineTerminator(text[j])
        THEN [matched |-> TRUE, capture |-> SubSeq(text, k + 2, Len(text))]
        ELSE [matched |-> FALSE, capture |-> <<>>]

IsDigit(c) == c \in {"0", "1", "2", "3", "4", "5", "6", "7", "8", "9"}

DigitValue(c) ==
    CASE c = "0" -> 0 [] c = "1" -> 1 [] c = "2" -> 2 [] c = "3" -> 3
      [] c = "4" -> 4 [] c = "5" -> 5 [] c = "6" -> 6 [] c = "7" -> 7
      [] c = "8" -> 8 [] c = "9" -> 9

RECURSIVE AtoiDigits(_, _, _)
AtoiDigits(text, i, acc) ==
    IF i <= Len(text) /\ IsDigit(text[i])
    THEN AtoiDigits(text, i + 1, acc * 10 + DigitValue(text[i]))
    ELSE acc

\* atoi(): leading white space, an optional sign, then digits up to the
\* first character that is not one
Atoi(text) ==
    LET i == SkipSpace(text, 1)
    IN  IF i <= Len(text) /\ text[i] = "-" THEN 0 - AtoiDigits(text, i + 1, 0)
        ELSE IF i <= Len(text) /\ text[i] = "+" THEN AtoiDigits(text, i + 1, 0)
        ELSE AtoiDigits(text, i, 0)

\* std::string(const char*): the characters before the first NUL
RECURSIVE CString(_)
CString(buffer) ==
    IF buffer = <<>> \/ Head(buffer) = "NUL" THEN <<>>
    ELSE <<Head(buffer)>> \o CString(Tail(buffer))

(* --------------------------- fixed-width integers ---------------------- *)

\* an int (at most 31 bits of magnitude) converted to int64_t
Int64FromInt(n) ==
    IF n >= 0 THEN <<n % Limb, (n \div Limb) % Limb, 0, 0>>
    ELSE <<n % Limb, (n \div Limb) % Limb, Limb - 1, Limb - 1>>

\* a DWORD holding the natural number n < 2^31
DWordFromNat(n) == <<n % Limb, (n \div Limb) % Limb>>

\* DWORD * int where the int is a small positive literal: unsigned 32-bit
\* arithmetic, the carry out of the high limb is dropped
DWordMul(d, k) ==
    LET p0 == d[1] * k
        p1 == d[2] * k + (p0 \div Limb)
    IN  <<p0 % Limb, p1 % Limb>>

\* DWORD converted to int64_t: zero extension
Int64FromDWord(d) == <<d[1], d[2], 0, 0>>

(* ------------------------- what the OS can report ---------------------- *)

Relationships ==
    {"RelationProcessorCore", "RelationNumaNode", "RelationCache",
     "RelationProcessorPackage", "RelationGroup"}

Entry(rel, mask) == [Relationship |-> rel, ProcessorMask |-> mask]

\* the entries of the enumerated topologies: cores with no, one and two
\* logical processors, and one entry of every other relationship
Entries ==
    {Entry("RelationProcessorCore", m) : m \in {0, 1, 3}}
        \cup {Entry(r, 1) : r \in Relationships \ {"RelationProcessorCore"}}

\* a machine with 4 cores of 2 logical processors each, bare and as the OS
\* lists it together with its package, cache and NUMA entries
Machine4x2 ==
    <<Entry("RelationProcessorCore", 3), Entry("RelationProcessorCore", 12),
      Entry("RelationProcessorCore", 48), Entry("RelationProcessorCore", 192)>>

Machine4x2Full ==
    <<Entry("RelationProcessorPackage", 255),
      Entry("RelationProcessorCore", 3), Entry("RelationCache", 3),
      Entry("RelationProcessorCore", 12), Entry("RelationCache", 12),
      Entry("RelationProcessorCore", 48),
      Entry("RelationProcessorCore", 192), Entry("RelationNumaNode", 255)>>

Topologies ==
    UNION {[1..n -> Entries] : n \in 1..MaxEntries}
        \cup {Machine4x2, Machine4x2Full}

\* the machines of the unix path: physical cores, and the logical
\* processors each of them exposes; sysconf(_SC_NPROCESSORS_ONLN) reports
\* their product, or -1 on error
Machines ==
    {m \in [cores : 1..MaxProcessors, threads : 1..2] :
        m.cores * m.threads <= MaxProcessors}

LineModel == ModelNameField \o <<"\t", ":", " ", "C", "P", "U">>
LineModelOther == ModelNameField \o <<" ", ":", " ", "X">>
LineModelEmpty == ModelNameField \o <<"\t", ":", " ">>
LineMHz == CpuMHzField \o <<"\t", "\t", ":", " ", "2", "4", "0", "0">>
LineMHzFraction == CpuMHzField \o <<"\t", ":", " ", "9", "9", ".", "5">>
LineProcessor ==
    <<"p", "r", "o", "c", "e", "s", "s", "o", "r", "\t", ":", " ", "0">>

Lines ==
    {LineModel, LineModelOther, LineModelEmpty, LineMHz, LineMHzFraction,
     LineProcessor}

\* the lines joined by "\n", the last one terminated or not
RECURSIVE JoinLines(_, _)
JoinLines(lines, terminated) ==
    IF lines = <<>> THEN <<>>
    ELSE IF Len(lines) = 1
         THEN Head(lines) \o (IF terminated THEN <<"\n">> ELSE <<>>)
         ELSE Head(lines) \o <<"\n">> \o JoinLines(Tail(lines), terminated)

\* the contents of /proc/cpuinfo; an unreadable file reads as the empty text.
\* The last text has its colon on a line of its own.
Texts ==
    {JoinLines(ls, t) :
        ls \in UNION {[1..n -> Lines] : n \in 0..MaxLines}, t \in BOOLEAN}
        \cup {ModelNameField \o <<"\n", ":", " ", "X">>}

\* the data RegQueryValueEx stores for ProcessorNameString
ProcessorNames ==
    {<<>>, <<"NUL">>, <<"C", "P", "U", "NUL">>, <<"C", "P", "U">>}

\* the DWORD RegQueryValueEx stores for ~MHz
MHzValues ==
    {DWordFromNat(n) : n \in {0, 1, 2400, 4294, 4295, 6000}}
        \cup {<<Limb - 1, Limb - 1>>}

\* byte counts the OS reports, and what an unfilled status structure holds
RamValues == {1024, 4096}
StaleValues == {-1, 0, 4096, 77777}

(* ------------------------------ the state ------------------------------ *)

\* the value a query returns is kept in the variable of its type
retvals == <<retString, retPair, retInt, retBool, retInt64>>

ReturnString(value) ==
    retString' = value /\ UNCHANGED <<retPair, retInt, retBool, retInt64>>
ReturnPair(value) ==
    retPair' = value /\ UNCHANGED <<retString, retInt, retBool, retInt64>>
ReturnInt(value) ==
    retInt' = value /\ UNCHANGED <<retString, retPair, retBool, retInt64>>
ReturnBool(value) ==
    retBool' = value /\ UNCHANGED <<retString, retPair, retInt, retInt64>>
ReturnInt64(value) ==
    retInt64' = value /\ UNCHANGED <<retString, retPair, retInt, retBool>>

CoreQueries ==
    {"CpuTotalCores", "CpuLogicalCores", "CpuPhysicalCores",
     "CpuHyperThreading"}

Init ==
    /\ platform \in {"windows", "unix"}
    /\ op = "idle"
    /\ pc = "idle"
    /\ topology = <<>>
    /\ processors = 0
    /\ osCalls = 0
    /\ osChanges = 0
    /\ heap = <<>>
    /\ pBuffer = NULL
    /\ dwLength = 0
    /\ allocated = FALSE
    /\ result = <<0, 0>>
    /\ dwOffset = 0
    /\ cores = <<>>
    /\ cpuinfo = <<>>
    /\ registry = [open |-> FALSE, query |-> FALSE, name |-> <<>>,
                   mhz |-> <<0, 0>>]
    /\ memory = [ok |-> FALSE, total |-> 0, avail |-> 0]
    /\ bitMask = 0
    /\ machine = [cores |-> 0, threads |-> 0]
    /\ retString = <<>>
    /\ retPair = <<>>
    /\ retInt = 0
    /\ retBool = FALSE
    /\ retInt64 = <<>>

(* ------------------- System::CpuTotalCores, Windows -------------------- *)

\* the bytes the OS needs for its present topology list
Required == Len(topology) * EntrySize

Live == {b \in 1..Len(heap) : heap[b].frees = 0}

\* free(p); free(NULL) does nothing
Free(p) ==
    IF p = NULL THEN heap
    ELSE [heap EXCEPT ![p].frees = heap[p].frees + 1]

EnterCores(query) ==
    /\ pc = "idle"
    /\ op' = query
    /\ IF platform = "windows"
       THEN \E t \in Topologies : topology' = t /\ pc' = "query"
       ELSE topology' = topology /\ pc' = "sysconf"
    /\ UNCHANGED <<platform, processors, osCalls, osChanges, heap, pBuffer,
                   dwLength, allocated, result, dwOffset, cores, cpuinfo,
                   registry, memory, bitMask, retvals, machine>>

CallCpuTotalCores == EnterCores("CpuTotalCores")
CallCpuLogicalCores == EnterCores("CpuLogicalCores")
CallCpuPhysicalCores == EnterCores("CpuPhysicalCores")
CallCpuHyperThreading == EnterCores("CpuHyperThreading")

\* the OS gains a processor between two calls of the sizing loop
TopologyChange ==
    /\ platform = "windows"
    /\ pc = "query"
    /\ osCalls >= 1
    /\ osChanges < MaxChanges
    /\ \E e \in Entries : topology' = Append(topology, e)
    /\ osChanges' = osChanges + 1
    /\ UNCHANGED <<platform, op, pc, processors, osCalls, heap, pBuffer,
                   dwLength, allocated, result, dwOffset, cores, cpuinfo,
                   registry, memory, bitMask, retvals, machine>>

\* GetLogicalProcessorInformation(pBuffer, &dwLength) and the branch on
\* its result
GetLogicalProcessorInformation ==
    /\ platform = "windows"
    /\ pc = "query"
    /\ osCalls' = osCalls + 1
    /\ \/ /\ cores' = <<-1, -1>>
          /\ pc' = "return"
          /\ UNCHANGED <<heap, dwLength, allocated, machine>>
       \/ /\ dwLength < Required
          /\ dwLength' = Required
          /\ pc' = "free_old"
          /\ UNCHANGED <<heap, allocated, cores, machine>>
       \/ /\ dwLength >= Required
          /\ pBuffer # NULL
          /\ heap' = [heap EXCEPT ![pBuffer].data = topology]
          /\ dwLength' = Required
          /\ allocated' = TRUE
          /\ pc' = "scan"
          /\ UNCHANGED cores
    /\ UNCHANGED <<platform, op, topology, processors, osChanges, pBuffer,
                   result, dwOffset, cpuinfo, registry, memory, bitMask,
                   retvals, machine>>

\* the old buffer is kept and the pointer to it overwritten
FreeOld_Keeps ==
    /\ pc = "free_old"
    /\ pc' = "malloc"
    /\ UNCHANGED <<platform, op, topology, processors, osCalls, osChanges,
                   heap, pBuffer, dwLength, allocated, result, dwOffset,
                   cores, cpuinfo, registry, memory, bitMask, retvals,
                   machine>>

FreeOld ==
    /\ pc = "free_old"
    /\ heap' = Free(pBuffer)
    /\ pc' = "malloc"
    /\ UNCHANGED <<platform, op, topology, processors, osCalls, osChanges,
                   pBuffer, dwLength, allocated, result, dwOffset, cores,
                   cpuinfo, registry, memory, bitMask, retvals, machine>>

Malloc ==
    /\ pc = "malloc"
    /\ \/ /\ heap' = Append(heap, [size |-> dwLength, data |-> <<>>,
                                   frees |-> 0])
          /\ pBuffer' = Len(heap) + 1
          /\ pc' = "query"
          /\ UNCHANGED cores
       \/ /\ pBuffer' = NULL
          /\ cores' = <<-1, -1>>
          /\ pc' = "return"
          /\ UNCHANGED heap
    /\ UNCHANGED <<platform, op, topology, processors, osCalls, osChanges,
                   dwLength, allocated, result, dwOffset, cpuinfo, registry,
                   memory, bitMask, retvals, machine>>

\* every core counts as one logical processor, whatever its mask
CountCore_IgnoresMask(counts, mask) ==
    <<counts[1] + 1, counts[2] + 1>>

CountCore(counts, mask) ==
    <<counts[1] + CountSetBits(mask), counts[2] + 1>>

ScanEntry ==
    /\ pc = "scan"
    /\ IF dwOffset + EntrySize <= dwLength
       THEN LET pCurrent == heap[pBuffer].data[(dwOffset \div EntrySize) + 1]
            IN  CASE pCurrent.Relationship = "RelationProcessorCore" ->
                       /\ result' = CountCore(result, pCurrent.ProcessorMask)
                       /\ dwOffset' = dwOffset + EntrySize
                       /\ UNCHANGED <<pc, cores, machine>>
                  [] pCurrent.Relationship \in
                         {"RelationNumaNode", "RelationCache",
                          "RelationProcessorPackage"} ->
                       /\ dwOffset' = dwOffset + EntrySize
                       /\ UNCHANGED <<pc, cores, result, machine>>
                  [] OTHER ->
                       /\ cores' = <<-1, -1>>
                       /\ pc' = "return"
                       /\ UNCHANGED <<result, dwOffset, machine>>
       ELSE /\ pc' = "free"
            /\ UNCHANGED <<result, dwOffset, cores, machine>>
    /\ UNCHANGED <<platform, op, topology, processors, osCalls, osChanges,
                   heap, pBuffer, dwLength, allocated, cpuinfo, registry,
                   memory, bitMask, retvals, machine>>

FreeBuffer ==
    /\ pc = "free"
    /\ heap' = Free(pBuffer)
    /\ cores' = result
    /\ pc' = "return"
    /\ UNCHANGED <<platform, op, topology, processors, osCalls, osChanges,
                   pBuffer, dwLength, allocated, result, dwOffset, cpuinfo,
                   registry, memory, bitMask, retvals, machine>>

(* --------------------- System::CpuTotalCores, unix --------------------- *)

Sysconf ==
    /\ platform = "unix"
    /\ pc = "sysconf"
    /\ \E m \in Machines, ok \in BOOLEAN :
          /\ machine' = m
          /\ processors' = IF ok THEN m.cores * m.threads ELSE -1
    /\ cores' = <<processors', processors'>>
    /\ pc' = "return"
    /\ UNCHANGED <<platform, op, topology, osCalls, osChanges, heap, pBuffer,
                   dwLength, allocated, result, dwOffset, cpuinfo, registry,
                   memory, bitMask, retvals>>

(* ------- CpuLogicalCores, CpuPhysicalCores, CpuHyperThreading ---------- *)

\* hyper-threading only when there are more logical than physical cores
HyperThreading_Greater(pair) == pair[1] > pair[2]

HyperThreading(pair) == pair[1] # pair[2]

ReturnCores ==
    /\ pc = "return"
    /\ CASE op = "CpuTotalCores" -> ReturnPair(cores)
         [] op = "CpuLogicalCores" -> ReturnInt(cores[1])
         [] op = "CpuPhysicalCores" -> ReturnInt(cores[2])
         [] op = "CpuHyperThreading" -> ReturnBool(HyperThreading(cores))
    /\ pc' = "done"
    /\ UNCHANGED <<platform, op, topology, processors, osCalls, osChanges,
                   heap, pBuffer, dwLength, allocated, result, dwOffset,
                   cores, cpuinfo, registry, memory, bitMask, machine>>

(* ------------------------ System::CpuArchitecture ---------------------- *)

\* pBuffer is zero-filled, then holds the value's data
CpuArchitectureWindows(reg) ==
    IF ~reg.open THEN Unknown
    ELSE IF ~reg.query THEN Unknown
    ELSE CString(reg.name \o <<"NUL">>)

CpuArchitectureUnix(text) ==
    LET matches == RegexMatch(text, ModelNameField)
    IN  IF matches.matched THEN matches.capture ELSE Unknown

CallCpuArchitecture ==
    /\ pc = "idle"
    /\ op' = "CpuArchitecture"
    /\ IF platform = "windows"
       THEN /\ \E o \in BOOLEAN, q \in BOOLEAN, data \in ProcessorNames :
                  registry' = [open |-> o, query |-> q, name |-> data,
                               mhz |-> <<0, 0>>]
            /\ ReturnString(CpuArchitectureWindows(registry'))
            /\ UNCHANGED cpuinfo
       ELSE /\ \E text \in Texts : cpuinfo' = text
            /\ ReturnString(CpuArchitectureUnix(cpuinfo'))
            /\ UNCHANGED registry
    /\ pc' = "done"
    /\ UNCHANGED <<platform, topology, processors, osCalls, osChanges, heap,
                   pBuffer, dwLength, allocated, result, dwOffset, cores,
                   memory, bitMask, machine>>

(* ------------------------ System::CpuClockSpeed ------------------------ *)

CpuClockSpeedWindows(reg) ==
    IF ~reg.open THEN Int64FromInt(-1)
    ELSE IF ~reg.query THEN Int64FromInt(-1)
    ELSE Int64FromDWord(DWordMul(DWordMul(reg.mhz, 1000), 1000))

CpuClockSpeedUnix(text) ==
    LET matches == RegexMatch(text, CpuMHzField)
    IN  Int64FromInt(IF matches.matched THEN Atoi(matches.capture) ELSE -1)

CallCpuClockSpeed ==
    /\ pc = "idle"
    /\ op' = "CpuClockSpeed"
    /\ IF platform = "windows"
       THEN /\ \E o \in BOOLEAN, q \in BOOLEAN, m \in MHzValues :
                  registry' = [open |-> o, query |-> q, name |-> <<>>,
                               mhz |-> m]
            /\ ReturnInt64(CpuClockSpeedWindows(registry'))
            /\ UNCHANGED cpuinfo
       ELSE /\ \E text \in Texts : cpuinfo' = text
            /\ ReturnInt64(CpuClockSpeedUnix(cpuinfo'))
            /\ UNCHANGED registry
    /\ pc' = "done"
    /\ UNCHANGED <<platform, topology, processors, osCalls, osChanges, heap,
                   pBuffer, dwLength, allocated, result, dwOffset, cores,
                   memory, bitMask, machine>>

(* -------------------- System::RamTotal, System::RamFree ---------------- *)

\* MEMORYSTATUSEX after GlobalMemoryStatusEx(&status): filled on success,
\* left as it was (never initialised) on failure
GlobalMemoryStatusEx(mem, stale) ==
    IF mem.ok
    THEN [ullTotalPhys |-> mem.total, ullAvailPhys |-> mem.avail]
    ELSE stale

RamTotalWindows(status) == status.ullTotalPhys
RamFreeWindows(status) == status.ullAvailPhys

\* struct sysinfo after sysinfo(&si)
RamTotalUnix(mem) == IF mem.ok THEN mem.total ELSE -1
RamFreeUnix(mem) == IF mem.ok THEN mem.avail ELSE -1

ReadMemory(query) ==
    /\ pc = "idle"
    /\ op' = query
    /\ \E o \in BOOLEAN, t \in RamValues, a \in RamValues :
          /\ a <= t
          /\ memory' = [ok |-> o, total |-> t, avail |-> a]
    /\ IF platform = "windows"
       THEN \E st \in StaleValues, sa \in StaleValues :
               LET status == GlobalMemoryStatusEx(memory',
                                 [ullTotalPhys |-> st, ullAvailPhys |-> sa])
               IN  ReturnInt(IF query = "RamTotal"
                             THEN RamTotalWindows(status)
                             ELSE RamFreeWindows(status))
       ELSE ReturnInt(IF query = "RamTotal" THEN RamTotalUnix(memory')
                      ELSE RamFreeUnix(memory'))
    /\ pc' = "done"
    /\ UNCHANGED <<platform, topology, processors, osCalls, osChanges, heap,
                   pBuffer, dwLength, allocated, result, dwOffset, cores,
                   cpuinfo, registry, bitMask, machine>>

CallRamTotal == ReadMemory("RamTotal")
CallRamFree == ReadMemory("RamFree")

(* ---------------- Internals::CountSetBits called on its own ------------ *)

CallCountSetBits ==
    /\ platform = "windows"
    /\ pc = "idle"
    /\ op' = "CountSetBits"
    /\ \E mask \in 0..(2 ^ PtrBits - 1) : bitMask' = mask
    /\ ReturnInt(CountSetBits(bitMask'))
    /\ pc' = "done"
    /\ UNCHANGED <<platform, topology, processors, osCalls, osChanges, heap,
                   pBuffer, dwLength, allocated, result, dwOffset, cores,
                   cpuinfo, registry, memory, machine>>

(* --------------------------- the specification ------------------------- *)

Next ==
    \/ CallCpuTotalCores
    \/ CallCpuLogicalCores
    \/ CallCpuPhysicalCores
    \/ CallCpuHyperThreading
    \/ TopologyChange
    \/ GetLogicalProcessorInformation
    \/ FreeOld
    \/ Malloc
    \/ ScanEntry
    \/ FreeBuffer
    \/ Sysconf
    \/ ReturnCores
    \/ CallCpuArchitecture
    \/ CallCpuClockSpeed
    \/ CallRamTotal
    \/ CallRamFree
    \/ CallCountSetBits

Spec == Init /\ [][Next]_vars

(* ----------------- definitions the properties are stated in ------------ *)

\* the population count of a mask of the pointer width
PopCount(mask) ==
    Cardinality({i \in 0..(PtrBits - 1) : (mask \div (2 ^ i)) % 2 = 1})

IsCore(e) == e.Relationship = "RelationProcessorCore"

KnownRelationships ==
    {"RelationProcessorCore", "RelationNumaNode", "RelationCache",
     "RelationProcessorPackage"}

AllKnown(list) ==
    \A i \in 1..Len(list) : list[i].Relationship \in KnownRelationships

PhysicalIn(list) == Cardinality({i \in 1..Len(list) : IsCore(list[i])})

RECURSIVE LogicalIn(_)
LogicalIn(list) ==
    IF list = <<>> THEN 0
    ELSE (IF IsCore(Head(list)) THEN PopCount(Head(list).ProcessorMask)
          ELSE 0) + LogicalIn(Tail(list))

\* the topology query of the Windows path has handed its list to the call
ListReturned ==
    /\ platform = "windows"
    /\ op \in CoreQueries
    /\ allocated

Returned(query) == pc = "done" /\ op = query

\* a pair of core counts as the specification allows it
PairAllowed(pair) ==
    \/ pair[1] >= pair[2] /\ pair[2] >= 0
    \/ pair = <<-1, -1>>

\* C1: the pair CpuTotalCores returns has logical >= physical >= 0 or is
\* (-1, -1), for every topology and every online-processor count, and
\* CpuLogicalCores / CpuPhysicalCores return its first / second component.
C1_PairOrdered ==
    (pc = "done" /\ op \in CoreQueries) =>
        /\ PairAllowed(cores)
        /\ op = "CpuTotalCores" => retPair = cores
        /\ op = "CpuLogicalCores" => retInt = cores[1]
        /\ op = "CpuPhysicalCores" => retInt = cores[2]

\* C2: on the topology-list path CpuTotalCores returns (sum of the set bits
\* of the core entries' masks, number of core entries) when every entry is
\* a core, NUMA-node, cache or package entry, and exactly (-1, -1) when any
\* entry has another tag; CountSetBits is the population count of its mask.
C2_CountsFromTopology ==
    /\ Returned("CountSetBits") => retInt = PopCount(bitMask)
    /\ (ListReturned /\ Returned("CpuTotalCores")) =>
          retPair = IF AllKnown(topology)
                   THEN <<LogicalIn(topology), PhysicalIn(topology)>>
                   ELSE <<-1, -1>>

C2_Witness ==
    /\ ListReturned
    /\ Returned("CpuTotalCores")
    /\ AllKnown(topology)
    /\ \E i \in 1..Len(topology) : ~IsCore(topology[i])
    /\ \E i \in 1..Len(topology) :
          IsCore(topology[i]) /\ PopCount(topology[i].ProcessorMask) = 2
    /\ retPair = <<LogicalIn(topology), PhysicalIn(topology)>>
    /\ retPair[1] > retPair[2]

\* a 64-bit value times a small positive factor, no bits lost below 2^64
Int64Times(x, k) ==
    LET p1 == x[1] * k
        p2 == x[2] * k + (p1 \div Limb)
        p3 == x[3] * k + (p2 \div Limb)
        p4 == x[4] * k + (p3 \div Limb)
    IN  <<p1 % Limb, p2 % Limb, p3 % Limb, p4 % Limb>>

\* mhz * 1,000,000 as a 64-bit count of Hz
HzOf(mhz64) == Int64Times(Int64Times(mhz64, 1000), 1000)

MinusOne64 == <<Limb - 1, Limb - 1, Limb - 1, Limb - 1>>

\* the lines of a text: the pieces between its "\n"
RECURSIVE SplitLines(_, _)
SplitLines(text, line) ==
    IF text = <<>> THEN (IF line = <<>> THEN <<>> ELSE <<line>>)
    ELSE IF Head(text) = "\n" THEN <<line>> \o SplitLines(Tail(text), <<>>)
    ELSE SplitLines(Tail(text), Append(line, Head(text)))

\* the values of the lines of the text that are "<field> : <value>" fields
FieldValues(text, field) ==
    LET ls == SplitLines(text, <<>>)
        fields == SelectSeq(ls, LAMBDA l : RegexMatch(l, field).matched)
    IN  [i \in 1..Len(fields) |-> RegexMatch(fields[i], field).capture]

IsNumber(value) ==
    value # <<>> /\ \A i \in 1..Len(value) : IsDigit(value[i])

RECURSIVE NumberOf(_, _)
NumberOf(value, acc) ==
    IF value = <<>> THEN acc
    ELSE NumberOf(Tail(value), acc * 10 + DigitValue(Head(value)))

\* C3: CpuClockSpeed returns m * 1,000,000 as a 64-bit count of Hz when the
\* source yields m MHz (any unsigned 32-bit m from the registry, any
\* non-negative integer text in the pseudo-file), and -1 when the source
\* cannot be opened, read or matched.
C3_ClockSpeedInHz ==
    Returned("CpuClockSpeed") =>
        IF platform = "windows"
        THEN retInt64 = IF registry.open /\ registry.query
                      THEN HzOf(Int64FromDWord(registry.mhz))
                      ELSE MinusOne64
        ELSE LET values == FieldValues(cpuinfo, CpuMHzField)
             IN  /\ values = <<>> => retInt64 = MinusOne64
                 /\ (values # <<>> /\ IsNumber(values[1])) =>
                       retInt64 = HzOf(Int64FromInt(NumberOf(values[1], 0)))

\* C4: on the pseudo-file path CpuArchitecture returns the text of the first
\* "model name : <text>" line of the processor-info text, whatever lines
\* stand before and after it, and "<unknown>" when there is no such line.
C4_FirstModelName ==
    (Returned("CpuArchitecture") /\ platform = "unix") =>
        LET values == FieldValues(cpuinfo, ModelNameField)
        IN  retString = IF values = <<>> THEN Unknown ELSE values[1]

\* C5: CpuArchitecture never returns the empty string.
C5_ArchitectureNotEmpty ==
    Returned("CpuArchitecture") => retString # <<>>

\* C6: RamTotal and RamFree return -1 whenever the OS memory-status call
\* fails, and the reported total / available value when it succeeds.
C6_RamOrMinusOne ==
    /\ Returned("RamTotal") =>
          retInt = IF memory.ok THEN memory.total ELSE -1
    /\ Returned("RamFree") =>
          retInt = IF memory.ok THEN memory.avail ELSE -1

\* C7: when CpuTotalCores returns, every topology buffer the call
\* allocated has been freed exactly once.
C7_BuffersFreedOnce ==
    (platform = "windows" /\ op \in CoreQueries /\ pc \in {"return", "done"})
        => \A b \in 1..Len(heap) : heap[b].frees = 1

\* C8: CpuHyperThreading returns true if and only if the two components of
\* the pair CpuTotalCores returned to it differ: false for equal positive
\* counts, false for the failure pair (-1, -1).
C8_HyperThreadingIffDiffer ==
    Returned("CpuHyperThreading") =>
        /\ retBool = (cores[1] # cores[2])
        /\ cores = <<-1, -1>> => retBool = FALSE
        /\ (cores[1] = cores[2] /\ cores[1] > 0) => retBool = FALSE
        /\ (ListReturned /\ AllKnown(topology)) =>
              retBool = (LogicalIn(topology) # PhysicalIn(topology))

C8_Witness ==
    /\ Returned("CpuHyperThreading")
    /\ ListReturned
    /\ cores[1] > cores[2]
    /\ cores[2] > 0
    /\ retBool = TRUE

\* the OS has reported a machine of c physical cores with t logical
\* processors each: as a topology list on the Windows path, as the count of
\* online processors on the unix path
Shape(list, c, t) ==
    /\ AllKnown(list)
    /\ PhysicalIn(list) = c
    /\ \A i \in 1..Len(list) :
          IsCore(list[i]) => PopCount(list[i].ProcessorMask) = t

OnMachine(c, t) ==
    IF platform = "windows"
    THEN ListReturned /\ Shape(topology, c, t)
    ELSE /\ op \in CoreQueries
         /\ machine = [cores |-> c, threads |-> t]
         /\ processors = c * t

Answers(pair, flag) ==
    /\ Returned("CpuTotalCores") => retPair = pair
    /\ Returned("CpuHyperThreading") => retBool = flag

\* C9 as stated: a machine of 4 cores with 2 logical processors each gives
\* (8, 4) and true on both platform paths, a single-core machine (1, 1) and
\* false.
C9_AsStated ==
    /\ OnMachine(4, 2) => Answers(<<8, 4>>, TRUE)
    /\ OnMachine(1, 1) => Answers(<<1, 1>>, FALSE)

\* C9, amended: when the OS query succeeds, a machine of 4 cores with 2
\* logical processors each gives (8, 4) and true on the topology-list path
\* and (8, 8) and false on the online-processor-count path; a single-core
\* machine gives (1, 1) and false on both.
C9_PerPlatform ==
    /\ OnMachine(4, 2) =>
          IF platform = "windows" THEN Answers(<<8, 4>>, TRUE)
          ELSE Answers(<<8, 8>>, FALSE)
    /\ OnMachine(1, 1) => Answers(<<1, 1>>, FALSE)

C9_Witness ==
    /\ Returned("CpuTotalCores")
    /\ platform = "windows"
    /\ OnMachine(4, 2)
    /\ Len(topology) > 4
    /\ retPair = <<8, 4>>

\* C10: the sizing loop of CpuTotalCores ends after at most two OS calls
\* when the OS keeps the length it reported (and after at most one more per
\* change of that length), with a live, filled buffer of the reported length
\* or with (-1, -1); the previous buffer is freed before the next is
\* allocated, so at most one buffer is live.
C10_SizingLoop ==
    (platform = "windows" /\ op \in CoreQueries) =>
        /\ osCalls <= 2 + osChanges
        /\ osChanges = 0 => osCalls <= 2
        /\ Cardinality(Live) <= 1
        /\ pc = "malloc" => Live = {}
        /\ pc = "scan" =>
              /\ allocated
              /\ pBuffer # NULL
              /\ Live = {pBuffer}
              /\ heap[pBuffer].size = dwLength
              /\ heap[pBuffer].data = topology
              /\ Len(topology) * EntrySize = dwLength
        /\ (pc \in {"return", "done"} /\ ~allocated) => cores = <<-1, -1>>

C10_Witness ==
    /\ platform = "windows"
    /\ pc = "scan"
    /\ dwOffset = 0
    /\ osChanges = 0
    /\ osCalls = 2
    /\ Live = {pBuffer}
    /\ heap[pBuffer].data = topology

====
